---- MODULE Spec2Model ----
(***************************************************************************)
(* State-machine model of src/src/main.rs (taskmanager-gui-iced): the      *)
(* Loading/Loaded application, App::update's message dispatch, the edit    *)
(* buffer, the selection list, the form validation and the persisted copy  *)
(* of the project store.                                                   *)
(*                                                                         *)
(* Option<T> is modelled as a sequence of length at most one: None is <<>>  *)
(* and Some(x) is <<x>>.  A Project is a record [id, name, description]     *)
(* and ProjectData (crate taskmanager, not part of src/) is the ordered     *)
(* sequence of its projects.                                               *)
(***************************************************************************)
EXTENDS Integers, Sequences, FiniteSets, TLC

\* app: the App value; disk: the persisted representation of the store.
VARIABLES app, disk

vars == <<app, disk>>

(***************************************************************************)
(* Bounds of the model.                                                    *)
(***************************************************************************)
\* Uuids are opaque and only compared for equality: 1..MaxUuid.  A newly
\* generated Uuid is modelled by the least id not in use (any other fresh id
\* gives the same behaviour up to a renaming of the ids).
MaxUuid == 3
\* The store holds at most MaxProjects projects (create is blocked beyond).
MaxProjects == 2

Uuids == 1..MaxUuid
Names == {"", "Website"}
Descriptions == {"", "Rebuild"}

(***************************************************************************)
(* Option<T>                                                               *)
(***************************************************************************)
None == <<>>
Some(x) == <<x>>
IsSome(o) == o # <<>>
Unwrap(o) == o[1]

(***************************************************************************)
(* The small state structs (main.rs 8-65).                                 *)
(***************************************************************************)
Context == {"ProjectList", "NewProject", "EditProject"}

ProjectListStateNew == [selected_projects |-> <<>>]

FormFieldStateNew == [is_valid |-> TRUE, validation_message |-> ""]

ProjectFormStateNew ==
    [name_field |-> FormFieldStateNew, description_field |-> FormFieldStateNew]

AppStateDefault ==
    [context            |-> None,
     projects_data      |-> None,
     current_project    |-> None,
     project_list_state |-> None,
     project_form_state |-> None]

\* enum App { Loading, Loaded(AppState) }; Panicked is the process after a
\* panic (an unwrap of None) has aborted it.
Loading == [tag |-> "Loading"]
Loaded(state) == [tag |-> "Loaded", state |-> state]
Panicked == [tag |-> "Panicked"]

(***************************************************************************)
(* enum Message (main.rs 73-85).                                           *)
(***************************************************************************)
Ok(state) == [ok |-> TRUE, state |-> state]
Err(error) == [ok |-> FALSE, error |-> error]

MsgAppLoaded(result) == [type |-> "AppLoaded", result |-> result]
MsgAppSync == [type |-> "AppSync"]
MsgNewProject == [type |-> "NewProject"]
MsgEditProject(project_id) == [type |-> "EditProject", project_id |-> project_id]
MsgEditProjectCancel == [type |-> "EditProjectCancel"]
MsgCurrentProjectSave == [type |-> "CurrentProjectSave"]
MsgCurrentProjectNameChange(name) ==
    [type |-> "CurrentProjectNameChange", name |-> name]
MsgCurrentProjectDescriptionChange(description) ==
    [type |-> "CurrentProjectDescriptionChange", description |-> description]
MsgProjectListProjectSelected(selected, selected_project_id) ==
    [type |-> "ProjectListProjectSelected", selected |-> selected,
     selected_project_id |-> selected_project_id]
MsgProjectListSelectAllProjects(selected) ==
    [type |-> "ProjectListSelectAllProjects", selected |-> selected]

(***************************************************************************)
(* taskmanager::project (external crate): Project::new, ProjectData.       *)
(***************************************************************************)
ProjectNew(uuid, name, description) ==
    [id |-> uuid, name |-> name, description |-> description]

ProjectIds(projects) == {projects[i].id : i \in 1..Len(projects)}

\* Index of the project with the given id, 0 when absent.
IndexOf(projects, project_id) ==
    IF \E i \in 1..Len(projects) : projects[i].id = project_id
    THEN CHOOSE i \in 1..Len(projects) :
            /\ projects[i].id = project_id
            /\ \A j \in 1..(i - 1) : projects[j].id # project_id
    ELSE 0

get_project(projects_data, project_id) ==
    IF IndexOf(projects_data, project_id) = 0 THEN None
    ELSE Some(projects_data[IndexOf(projects_data, project_id)])

create_project(projects_data, uuid, name, description) ==
    Append(projects_data, ProjectNew(uuid, name, description))

\* load_data / write_data: the persisted representation is either
\* unreadable (None) or decodes to the store that was written (Some(store)).
load_data(d) == IF IsSome(d) THEN Ok(Unwrap(d)) ELSE Err("decode")

write_data(d, projects_data, write_ok) ==
    IF write_ok THEN Some(projects_data) ELSE d

(***************************************************************************)
(* impl AppState (main.rs 138-250).                                        *)
(***************************************************************************)
\* AppState::load: always Ok; a failed load_data yields AppState::default().
load(d) ==
    IF load_data(d).ok
    THEN Ok([context            |-> Some("ProjectList"),
             projects_data      |-> Some(load_data(d).state),
             current_project    |-> None,
             project_list_state |-> Some(ProjectListStateNew),
             project_form_state |-> Some(ProjectFormStateNew)])
    ELSE Ok(AppStateDefault)

\* AppState::save unwraps projects_data before anything is written.
save_panics(state) == ~IsSome(state.projects_data)

\* Faulty variant: an incremental save, which appends the projects the
\* persisted representation does not hold yet and rewrites none.
save_AppendsOnly(state, d, write_ok) ==
    IF save_panics(state) THEN d
    ELSE LET projects_data == Unwrap(state.projects_data)
             old == IF IsSome(d) THEN Unwrap(d) ELSE <<>>
         IN  IF Len(old) <= Len(projects_data)
             THEN write_data(d,
                             old \o SubSeq(projects_data, Len(old) + 1,
                                           Len(projects_data)),
                             write_ok)
             ELSE write_data(d, projects_data, write_ok)

\* The persisted representation after AppState::save (a failed write is
\* logged and absorbed).
save(state, d, write_ok) ==
    IF save_panics(state) THEN d
    ELSE write_data(d, Unwrap(state.projects_data), write_ok)

get_projects(state) ==
    IF IsSome(state.projects_data) THEN Unwrap(state.projects_data) ELSE <<>>

\* Faulty variant: the EditProject arm forgets to copy the description.
save_edited_project_NameOnly(projects_data, current_project) ==
    LET i == IndexOf(projects_data, current_project.id) IN
    IF i = 0 THEN projects_data
    ELSE [projects_data EXCEPT ![i] = [@ EXCEPT !.name = current_project.name]]

\* The Context::EditProject arm: overwrite name and description of the
\* entry found by get_project_mut, nothing when it is absent.
save_edited_project(projects_data, current_project) ==
    LET i == IndexOf(projects_data, current_project.id) IN
    IF i = 0 THEN projects_data
    ELSE [projects_data EXCEPT
            ![i] = [@ EXCEPT !.name = current_project.name,
                             !.description = current_project.description]]

\* Faulty variant: the NewProject arm stores the buffer under its own id.
save_new_project_KeepsBufferId(projects_data, current_project, uuid) ==
    Append(projects_data, current_project)

\* The Context::NewProject arm.
save_new_project(projects_data, current_project, uuid) ==
    create_project(projects_data, uuid,
                   current_project.name, current_project.description)

save_current_project(state, uuid) ==
    IF /\ IsSome(state.current_project)
       /\ IsSome(state.projects_data)
       /\ IsSome(state.context)
    THEN LET current_project == Unwrap(state.current_project)
             projects_data == Unwrap(state.projects_data)
             context == Unwrap(state.context)
         IN  CASE context = "NewProject" ->
                    [state EXCEPT !.projects_data =
                        Some(save_new_project(projects_data, current_project, uuid))]
               [] context = "EditProject" ->
                    [state EXCEPT !.projects_data =
                        Some(save_edited_project(projects_data, current_project))]
               [] OTHER -> state
    ELSE state

Contains(seq, x) == \E i \in 1..Len(seq) : seq[i] = x

is_project_selected(state, project_id) ==
    IF IsSome(state.project_list_state)
    THEN Contains(Unwrap(state.project_list_state).selected_projects, project_id)
    ELSE FALSE

RECURSIVE MapIds(_)
MapIds(projects) ==
    IF projects = <<>> THEN <<>>
    ELSE <<Head(projects).id>> \o MapIds(Tail(projects))

get_selected_project_ids(state) ==
    SelectSeq(MapIds(get_projects(state)),
              LAMBDA project_id : is_project_selected(state, project_id))

\* project_list (main.rs 273-277): the "Select All" checkbox is rendered
\* only for a non-empty list.
all_projects_selected(state) ==
    Len(get_selected_project_ids(state)) = Len(get_projects(state))

(***************************************************************************)
(* App::update (main.rs 354-483), one operator per match arm.              *)
(***************************************************************************)
\* Faulty variant: the Ok arm forgets to carry the loaded projects_data over.
update_Loading_DropsStore(message) ==
    IF message.type = "AppLoaded"
    THEN IF message.result.ok
         THEN Loaded([AppStateDefault EXCEPT !.context = Some("ProjectList")])
         ELSE Loaded(AppStateDefault)
    ELSE Loading

\* Faulty variant: the Ok arm carries the loaded project_list_state over, so
\* the selection arms act on a present list state.
update_Loading_KeepsListState(message) ==
    IF message.type = "AppLoaded"
    THEN IF message.result.ok
         THEN Loaded([AppStateDefault EXCEPT
                        !.projects_data = message.result.state.projects_data,
                        !.project_list_state =
                            message.result.state.project_list_state,
                        !.context = Some("ProjectList")])
         ELSE Loaded(AppStateDefault)
    ELSE Loading

update_Loading(message) ==
    IF message.type = "AppLoaded"
    THEN IF message.result.ok
         THEN Loaded([AppStateDefault EXCEPT
                        !.projects_data = message.result.state.projects_data,
                        !.context = Some("ProjectList")])
         ELSE Loaded(AppStateDefault)
    ELSE Loading

update_AppSync(state) ==
    IF save_panics(state) THEN Panicked ELSE Loaded(state)

\* Faulty variant: the NewProject arm keeps the form state of the previous
\* session when there is one.
update_NewProject_KeepsFormState(state, uuid) ==
    Loaded([state EXCEPT
              !.current_project = Some(ProjectNew(uuid, "", "")),
              !.project_form_state =
                  IF IsSome(@) THEN @ ELSE Some(ProjectFormStateNew),
              !.context = Some("NewProject")])

update_NewProject(state, uuid) ==
    Loaded([state EXCEPT
              !.current_project = Some(ProjectNew(uuid, "", "")),
              !.project_form_state = Some(ProjectFormStateNew),
              !.context = Some("NewProject")])

\* Faulty variant: the EditProject arm keeps the form state of the previous
\* session when there is one.
update_EditProject_KeepsFormState(state, project_id) ==
    IF IsSome(state.projects_data)
    THEN Loaded([state EXCEPT
                   !.current_project =
                       get_project(Unwrap(state.projects_data), project_id),
                   !.project_form_state =
                       IF IsSome(@) THEN @ ELSE Some(ProjectFormStateNew),
                   !.context = Some("EditProject")])
    ELSE Loaded(state)

update_EditProject(state, project_id) ==
    IF IsSome(state.projects_data)
    THEN Loaded([state EXCEPT
                   !.current_project =
                       get_project(Unwrap(state.projects_data), project_id),
                   !.project_form_state = Some(ProjectFormStateNew),
                   !.context = Some("EditProject")])
    ELSE Loaded(state)

update_EditProjectCancel(state) ==
    Loaded([state EXCEPT !.current_project = None,
                         !.context = Some("ProjectList")])

\* Faulty variant: the test of the name rule is inverted.
validate_name_Inverted(name) ==
    IF Len(name) # 0
    THEN [is_valid |-> FALSE, validation_message |-> "Name is required"]
    ELSE [is_valid |-> TRUE, validation_message |-> ""]

\* main.rs 418-424: the name rule.
validate_name(name) ==
    IF Len(name) = 0
    THEN [is_valid |-> FALSE, validation_message |-> "Name is required"]
    ELSE [is_valid |-> TRUE, validation_message |-> ""]

update_CurrentProjectNameChange(state, name) ==
    IF IsSome(state.current_project)
    THEN LET project == [Unwrap(state.current_project) EXCEPT !.name = name]
         IN  Loaded([state EXCEPT
                !.current_project = Some(project),
                !.project_form_state =
                    IF IsSome(@)
                    THEN Some([Unwrap(@) EXCEPT
                                 !.name_field = validate_name(project.name)])
                    ELSE @])
    ELSE Loaded(state)

\* Faulty variant: current_project aliases the store entry instead of being a clone,
\* so that the new description is written through to the store.
update_CurrentProjectDescriptionChange_WritesThrough(state, description) ==
    IF IsSome(state.current_project)
    THEN LET project ==
                 [Unwrap(state.current_project) EXCEPT !.description = description]
         IN  Loaded([state EXCEPT
                !.current_project = Some(project),
                !.projects_data =
                    IF IsSome(@)
                    THEN Some(save_edited_project(Unwrap(@), project))
                    ELSE @])
    ELSE Loaded(state)

update_CurrentProjectDescriptionChange(state, description) ==
    IF IsSome(state.current_project)
    THEN Loaded([state EXCEPT
            !.current_project =
                Some([Unwrap(@) EXCEPT !.description = description])])
    ELSE Loaded(state)

update_CurrentProjectSave(state, uuid) ==
    Loaded(save_current_project(state, uuid))

update_ProjectListProjectSelected(state, selected, selected_project_id) ==
    IF IsSome(state.projects_data) /\ IsSome(state.project_list_state)
    THEN LET selected_projects ==
                 Unwrap(state.project_list_state).selected_projects
         IN  Loaded([state EXCEPT !.project_list_state =
                Some([selected_projects |->
                    IF selected
                    THEN Append(selected_projects, selected_project_id)
                    ELSE SelectSeq(selected_projects,
                            LAMBDA project_id :
                                project_id # selected_project_id)])])
    ELSE Loaded(state)

update_ProjectListSelectAllProjects(state, selected) ==
    LET project_ids == IF selected THEN MapIds(get_projects(state)) ELSE <<>>
    IN  IF IsSome(state.project_list_state)
        THEN Loaded([state EXCEPT !.project_list_state =
                        Some([selected_projects |-> project_ids])])
        ELSE Loaded(state)

\* Faulty variant: the Loaded arm handles AppLoaded as the Loading arm does.
update_Loaded_AcceptsAppLoaded(state, message, uuid) ==
    CASE message.type = "AppSync" -> update_AppSync(state)
      [] message.type = "NewProject" -> update_NewProject(state, uuid)
      [] message.type = "EditProject" ->
            update_EditProject(state, message.project_id)
      [] message.type = "EditProjectCancel" -> update_EditProjectCancel(state)
      [] message.type = "CurrentProjectNameChange" ->
            update_CurrentProjectNameChange(state, message.name)
      [] message.type = "CurrentProjectDescriptionChange" ->
            update_CurrentProjectDescriptionChange(state, message.description)
      [] message.type = "CurrentProjectSave" ->
            update_CurrentProjectSave(state, uuid)
      [] message.type = "ProjectListProjectSelected" ->
            update_ProjectListProjectSelected(state, message.selected,
                                              message.selected_project_id)
      [] message.type = "ProjectListSelectAllProjects" ->
            update_ProjectListSelectAllProjects(state, message.selected)
      [] message.type = "AppLoaded" -> update_Loading(message)
      [] OTHER -> Loaded(state)

update_Loaded(state, message, uuid) ==
    CASE message.type = "AppSync" -> update_AppSync(state)
      [] message.type = "NewProject" -> update_NewProject(state, uuid)
      [] message.type = "EditProject" ->
            update_EditProject(state, message.project_id)
      [] message.type = "EditProjectCancel" -> update_EditProjectCancel(state)
      [] message.type = "CurrentProjectNameChange" ->
            update_CurrentProjectNameChange(state, message.name)
      [] message.type = "CurrentProjectDescriptionChange" ->
            update_CurrentProjectDescriptionChange(state, message.description)
      [] message.type = "CurrentProjectSave" ->
            update_CurrentProjectSave(state, uuid)
      [] message.type = "ProjectListProjectSelected" ->
            update_ProjectListProjectSelected(state, message.selected,
                                              message.selected_project_id)
      [] message.type = "ProjectListSelectAllProjects" ->
            update_ProjectListSelectAllProjects(state, message.selected)
      [] OTHER -> Loaded(state)

\* App::update: self after the message is processed.  uuid is the value
\* the Uuid generator returns when the arm creates a Project.
update(self, message, uuid) ==
    CASE self.tag = "Loading" -> update_Loading(message)
      [] self.tag = "Loaded" -> update_Loaded(self.state, message, uuid)
      [] OTHER -> self

\* Faulty variant: the AppSync arm hands the write to a task that has not
\* run when App::update returns.
update_disk_Deferred(self, message, d, write_ok) == d

\* The persisted representation after App::update: only the AppSync arm of a
\* Loaded application calls AppState::save (main.rs 375-376).
update_disk(self, message, d, write_ok) ==
    IF self.tag = "Loaded" /\ message.type = "AppSync"
    THEN save(self.state, d, write_ok)
    ELSE d

(***************************************************************************)
(* The running application: App::new, then the runtime calls App::update   *)
(* with one message at a time.  App::update is modelled on its whole       *)
(* domain: any value of Message may arrive in any state of App, also the   *)
(* ones the views of this program never emit (a user message while         *)
(* Loading, EditProject of an id that is not stored, AppLoaded(Err)).      *)
(***************************************************************************)
\* Persisted representations the application may find at startup.
InitialDisks ==
    { None,
      Some(<<>>),
      Some(<<ProjectNew(1, "Website", "Rebuild")>>) }

\* App::new (main.rs 345-352).
Init ==
    /\ app = Loading
    /\ disk \in InitialDisks

IsLoaded == app.tag = "Loaded"

\* Ids a newly generated Uuid cannot collide with.
StoreIds(self) ==
    IF self.tag = "Loaded" THEN ProjectIds(get_projects(self.state)) ELSE {}
BufferIds(self) ==
    IF self.tag = "Loaded" /\ IsSome(self.state.current_project)
    THEN {Unwrap(self.state.current_project).id} ELSE {}

Least(S) == CHOOSE u \in S : \A v \in S : u <= v

\* The Uuids Project::new may return in the NewProject arm, and
\* create_project in the CurrentProjectSave arm.
NewProjectUuids(self) == Uuids \ StoreIds(self)
CreateUuids(self) == Uuids \ (StoreIds(self) \cup BufferIds(self))

\* CurrentProjectSave reaches create_project.
SaveCreates(self) ==
    /\ self.tag = "Loaded"
    /\ IsSome(self.state.current_project)
    /\ IsSome(self.state.projects_data)
    /\ self.state.context = Some("NewProject")

\* A panicked process takes no further message.
Running == app.tag # "Panicked"

\* One call of App::update with its effect on the persisted representation.
Dispatch(m, uuid, write_ok) ==
    /\ app' = update(app, m, uuid)
    /\ disk' = update_disk(app, m, disk, write_ok)

\* The completion of the load task of App::new; Err is the variant of the
\* Message type that arm 365-367 handles.
AppLoaded ==
    \E result \in {load(disk), Err("load")} :
        /\ Running
        /\ Dispatch(MsgAppLoaded(result), 1, TRUE)

\* The 15 s tick of App::subscription (main.rs 496-502); the write of
\* write_data succeeds or fails.
AppSync ==
    \E write_ok \in BOOLEAN :
        /\ Running
        /\ Dispatch(MsgAppSync, 1, write_ok)

NewProject ==
    /\ Running
    /\ NewProjectUuids(app) # {}
    /\ Dispatch(MsgNewProject, Least(NewProjectUuids(app)), TRUE)

EditProject ==
    \E project_id \in Uuids :
        /\ Running
        /\ Dispatch(MsgEditProject(project_id), 1, TRUE)

EditProjectCancel ==
    /\ Running
    /\ Dispatch(MsgEditProjectCancel, 1, TRUE)

CurrentProjectNameChange ==
    \E name \in Names :
        /\ Running
        /\ Dispatch(MsgCurrentProjectNameChange(name), 1, TRUE)

CurrentProjectDescriptionChange ==
    \E description \in Descriptions :
        /\ Running
        /\ Dispatch(MsgCurrentProjectDescriptionChange(description), 1, TRUE)

\* create_project is taken up to MaxProjects projects.
CurrentProjectSave ==
    /\ Running
    /\ SaveCreates(app) =>
          /\ Len(get_projects(app.state)) < MaxProjects
          /\ CreateUuids(app) # {}
    /\ Dispatch(MsgCurrentProjectSave,
                IF SaveCreates(app) THEN Least(CreateUuids(app)) ELSE 1, TRUE)

ProjectListProjectSelected ==
    \E selected \in BOOLEAN, selected_project_id \in Uuids :
        /\ Running
        /\ Dispatch(MsgProjectListProjectSelected(selected, selected_project_id),
                    1, TRUE)

ProjectListSelectAllProjects ==
    \E selected \in BOOLEAN :
        /\ Running
        /\ Dispatch(MsgProjectListSelectAllProjects(selected), 1, TRUE)

Next ==
    \/ AppLoaded
    \/ AppSync
    \/ NewProject
    \/ EditProject
    \/ EditProjectCancel
    \/ CurrentProjectNameChange
    \/ CurrentProjectDescriptionChange
    \/ CurrentProjectSave
    \/ ProjectListProjectSelected
    \/ ProjectListSelectAllProjects

Spec == Init /\ [][Next]_vars

\* The tick of App::subscription is emitted every 15 s in every state of the
\* application (main.rs 496-502), so an AppSync whose write succeeds is not
\* postponed forever.
SyncOk ==
    /\ Running
    /\ Dispatch(MsgAppSync, 1, TRUE)

FairSpec == Init /\ [][Next]_vars /\ WF_vars(SyncOk)

(***************************************************************************)
(* Vocabulary of the claims.  A claim about a message is stated on every   *)
(* reachable state: update is applied to the state and its result          *)
(* compared with the state.                                                *)
(***************************************************************************)
\* Every message but the load completion.
NonLoadMessages ==
    {MsgAppSync, MsgNewProject, MsgEditProjectCancel, MsgCurrentProjectSave}
    \cup {MsgEditProject(project_id) : project_id \in Uuids}
    \cup {MsgCurrentProjectNameChange(name) : name \in Names}
    \cup {MsgCurrentProjectDescriptionChange(description) :
            description \in Descriptions}
    \cup {MsgProjectListProjectSelected(selected, project_id) :
            selected \in BOOLEAN, project_id \in Uuids}
    \cup {MsgProjectListSelectAllProjects(selected) : selected \in BOOLEAN}

\* The Uuids the generator may return while CurrentProjectSave is processed.
SaveUuids(self) == IF SaveCreates(self) THEN CreateUuids(self) ELSE {1}

\* The SelectionSet: the ids held by project_list_state.selected_projects.
SelectedProjects(state) ==
    IF IsSome(state.project_list_state)
    THEN Unwrap(state.project_list_state).selected_projects
    ELSE <<>>
SelectionSet(state) ==
    {SelectedProjects(state)[i] : i \in 1..Len(SelectedProjects(state))}

EditContexts == {Some("NewProject"), Some("EditProject")}

(***************************************************************************)
(* C1: while the application is Loading, every message other than the load *)
(* completion leaves it Loading and changes nothing (the persisted         *)
(* representation included); the completion of a successful load makes it  *)
(* Loaded with context ProjectList, no current_project and the loaded       *)
(* store.                                                                  *)
(***************************************************************************)
C1_LoadingAcceptsOnlyLoad ==
    app.tag = "Loading" =>
        /\ \A m \in NonLoadMessages, uuid \in Uuids, write_ok \in BOOLEAN :
                /\ update(app, m, uuid) = Loading
                /\ update_disk(app, m, disk, write_ok) = disk
        /\ load_data(disk).ok =>
                LET post == update(app, MsgAppLoaded(load(disk)), 1) IN
                /\ post.tag = "Loaded"
                /\ post.state.context = Some("ProjectList")
                /\ post.state.current_project = None
                /\ post.state.projects_data = Some(load_data(disk).state)
                /\ update_disk(app, MsgAppLoaded(load(disk)), disk, TRUE) = disk

\* The application just after a successful load of a non-empty store: no form
\* has been opened yet and the store is the persisted one.
C1_Witness ==
    /\ IsLoaded
    /\ app.state.context = Some("ProjectList")
    /\ app.state.current_project = None
    /\ app.state.project_form_state = None
    /\ app.state.projects_data = disk
    /\ Len(get_projects(app.state)) >= 1

(***************************************************************************)
(* C2: when loading the persisted data fails, the load completion makes    *)
(* the application Loaded with context ProjectList and a store that exists  *)
(* and is empty.                                                           *)
(***************************************************************************)
C2_LoadFailureGivesEmptyStore ==
    (app.tag = "Loading" /\ ~load_data(disk).ok) =>
        LET post == update(app, MsgAppLoaded(load(disk)), 1) IN
        /\ post.tag = "Loaded"
        /\ post.state.context = Some("ProjectList")
        /\ post.state.projects_data = Some(<<>>)

(***************************************************************************)
(* C3: in every reachable Loaded state, the one reached after a load       *)
(* failure included, AppSync never aborts the application and leaves       *)
(* context, store, current_project, selection and field validations        *)
(* unchanged, whether the write succeeds or fails.                         *)
(***************************************************************************)
C3_SyncLeavesStateUnchanged ==
    IsLoaded => update(app, MsgAppSync, 1) = app

(***************************************************************************)
(* C4: after CurrentProjectSave in a Loaded state with a current_project   *)
(* (context NewProject or EditProject), current_project is None and the    *)
(* context is ProjectList, and a second CurrentProjectSave right after it  *)
(* leaves the store unchanged.                                             *)
(***************************************************************************)
C4_SaveEditClosesEditSession ==
    (/\ IsLoaded
     /\ IsSome(app.state.current_project)
     /\ app.state.context \in EditContexts) =>
        \A uuid \in SaveUuids(app) :
            LET post == update(app, MsgCurrentProjectSave, uuid) IN
            /\ post.state.current_project = None
            /\ post.state.context = Some("ProjectList")
            /\ \A uuid2 \in SaveUuids(post) :
                  update(post, MsgCurrentProjectSave, uuid2).state.projects_data
                      = post.state.projects_data

(***************************************************************************)
(* C5: CurrentProjectSave in context NewProject appends exactly one        *)
(* project to the store, as its last element, with current_project's name  *)
(* and description, and leaves the projects already there unchanged and in *)
(* the same order; from an empty store, NewProject, name "Website",        *)
(* description "Rebuild", CurrentProjectSave gives a store of exactly the  *)
(* one project Website/Rebuild.                                            *)
(***************************************************************************)
C5_SaveEditAppendsNewProject ==
    (/\ IsLoaded
     /\ IsSome(app.state.current_project)
     /\ app.state.context = Some("NewProject")) =>
        \A uuid \in CreateUuids(app) :
            LET post == update(app, MsgCurrentProjectSave, uuid)
                old == get_projects(app.state)
                new == get_projects(post.state)
                current_project == Unwrap(app.state.current_project)
            IN  /\ IsSome(post.state.projects_data)
                /\ Len(new) = Len(old) + 1
                /\ SubSeq(new, 1, Len(old)) = old
                /\ new[Len(new)].name = current_project.name
                /\ new[Len(new)].description = current_project.description

(***************************************************************************)
(* C6: CurrentProjectSave in context EditProject overwrites name and       *)
(* description of the store entry whose id is current_project's id with    *)
(* current_project's values, also when the name is empty and the name      *)
(* field invalid; the size and order of the store, every id and every      *)
(* other entry are unchanged.                                              *)
(***************************************************************************)
C6_SaveEditOverwritesEdited ==
    (/\ IsLoaded
     /\ IsSome(app.state.current_project)
     /\ app.state.context = Some("EditProject")) =>
        LET post == update(app, MsgCurrentProjectSave, 1)
            old == get_projects(app.state)
            new == get_projects(post.state)
            current_project == Unwrap(app.state.current_project)
        IN  /\ post.tag = "Loaded"
            /\ IsSome(post.state.projects_data)
            /\ current_project.id \in ProjectIds(old)
            /\ Len(new) = Len(old)
            /\ \A i \in 1..Len(old) :
                  IF old[i].id = current_project.id
                  THEN new[i] = current_project
                  ELSE new[i] = old[i]

\* An edit session on one of two stored projects whose name was emptied (the
\* name field is invalid) while the stored name is not empty: the save
\* stores the empty name.
C6_Witness ==
    /\ IsLoaded
    /\ app.state.context = Some("EditProject")
    /\ IsSome(app.state.current_project)
    /\ IsSome(app.state.project_form_state)
    /\ Len(get_projects(app.state)) = 2
    /\ LET current_project == Unwrap(app.state.current_project)
           stored == get_project(get_projects(app.state), current_project.id)
       IN  /\ current_project.name = ""
           /\ ~Unwrap(app.state.project_form_state).name_field.is_valid
           /\ IsSome(stored)
           /\ Unwrap(stored).name # ""
           /\ get_project(
                get_projects(update(app, MsgCurrentProjectSave, 1).state),
                current_project.id) = Some(current_project)

(***************************************************************************)
(* C7: in a Loaded state, EditProject(id) with an id that is not in the    *)
(* store changes nothing: context, current_project, field validations,     *)
(* selection and store stay as they were.                                  *)
(***************************************************************************)
C7_EditProjectAbsentIdIsNoOp ==
    IsLoaded =>
        \A project_id \in Uuids \ StoreIds(app) :
            update(app, MsgEditProject(project_id), 1) = app

(***************************************************************************)
(* C8: CurrentProjectNameChange and CurrentProjectDescriptionChange change *)
(* the edit session (current_project and its validation) and never the     *)
(* store, and EditProjectCancel discards current_project and sets the      *)
(* context to ProjectList: opening a session (NewProject or EditProject),  *)
(* changing name and description and cancelling leaves the store, and its  *)
(* persisted representation, identical.                                    *)
(*                                                                         *)
(* Every message of such a sequence is checked to leave the store alone in *)
(* every reachable state (which every state inside a sequence is); the     *)
(* whole sequence open, name, description, cancel is checked from every    *)
(* reachable state in which no session is open.                            *)
(***************************************************************************)
\* The messages of an edit session that is opened, edited and cancelled.
OpenMessages == {MsgNewProject} \cup {MsgEditProject(id) : id \in Uuids}
ChangeMessages ==
    {MsgCurrentProjectNameChange(name) : name \in Names}
    \cup {MsgCurrentProjectDescriptionChange(description) :
            description \in Descriptions}

\* The states an edit session may open in: NewProject with any Uuid the
\* generator may return, EditProject with any id.
OpenedSessions(self) ==
    {update(self, MsgNewProject, uuid) : uuid \in NewProjectUuids(self)}
    \cup {update(self, MsgEditProject(id), 1) : id \in Uuids}

\* The session is closed and the store is the given one.
SessionClosed(self, projects_data) ==
    /\ self.tag = "Loaded"
    /\ self.state.projects_data = projects_data
    /\ self.state.current_project = None
    /\ self.state.context = Some("ProjectList")

C8_EditsNeverTouchStore ==
    IsLoaded =>
        /\ \A post \in OpenedSessions(app) :
              /\ post.tag = "Loaded"
              /\ post.state.projects_data = app.state.projects_data
        /\ \A m \in ChangeMessages :
              LET post == update(app, m, 1) IN
              /\ post.tag = "Loaded"
              /\ post.state.projects_data = app.state.projects_data
              /\ post.state.context = app.state.context
              /\ post.state.project_list_state = app.state.project_list_state
              /\ IsSome(post.state.current_project)
                    = IsSome(app.state.current_project)
              /\ IsSome(app.state.current_project) =>
                    Unwrap(post.state.current_project).id
                        = Unwrap(app.state.current_project).id
        /\ SessionClosed(update(app, MsgEditProjectCancel, 1),
                         app.state.projects_data)
        /\ \A m \in OpenMessages \cup ChangeMessages \cup {MsgEditProjectCancel} :
              update_disk(app, m, disk, TRUE) = disk
        /\ app.state.current_project = None =>
            \A s1 \in OpenedSessions(app),
               name \in Names, description \in Descriptions :
              SessionClosed(
                  update(
                    update(
                      update(s1, MsgCurrentProjectNameChange(name), 1),
                      MsgCurrentProjectDescriptionChange(description), 1),
                    MsgEditProjectCancel, 1),
                  app.state.projects_data)

\* An edit session on a stored project whose buffer has been changed: the
\* stored entry still has the old name and description.
C8_Witness ==
    /\ IsLoaded
    /\ app.state.context = Some("EditProject")
    /\ IsSome(app.state.current_project)
    /\ LET current_project == Unwrap(app.state.current_project)
           stored == get_project(get_projects(app.state), current_project.id)
       IN  /\ IsSome(stored)
           /\ Unwrap(stored).name # current_project.name
           /\ Unwrap(stored).description # current_project.description

(***************************************************************************)
(* C9: after CurrentProjectNameChange(text) with a current_project, its    *)
(* name is text and the name field is invalid with "Name is required" when *)
(* text is empty, valid with no message otherwise; the rule "valid exactly *)
(* when the name is not empty" then holds until the session is closed or   *)
(* reopened.                                                               *)
(***************************************************************************)
NameField(state) == Unwrap(state.project_form_state).name_field

NameRule(state) ==
    NameField(state).is_valid <=> Unwrap(state.current_project).name # ""

\* The messages that neither open nor close an edit session.
SessionMessages ==
    (NonLoadMessages \ (OpenMessages \cup {MsgEditProjectCancel}))
    \cup {MsgAppLoaded(load(disk)), MsgAppLoaded(Err("load"))}

C9_NameValidation ==
    (IsLoaded /\ IsSome(app.state.current_project)) =>
        /\ IsSome(app.state.project_form_state)
        /\ \A text \in Names :
              LET post == update(app, MsgCurrentProjectNameChange(text), 1) IN
              /\ Unwrap(post.state.current_project).name = text
              /\ NameField(post.state) =
                    IF text = ""
                    THEN [is_valid |-> FALSE,
                          validation_message |-> "Name is required"]
                    ELSE [is_valid |-> TRUE, validation_message |-> ""]
              /\ NameRule(post.state)
        /\ NameRule(app.state) =>
              \A m \in SessionMessages, uuid \in SaveUuids(app) :
                  LET post == update(app, m, uuid) IN
                  (post.tag = "Loaded" /\ IsSome(post.state.current_project))
                      => NameRule(post.state)

\* A buffer whose name was changed to the empty string: the name field is
\* invalid with the message (only the name rule ever sets it).
C9_Witness ==
    /\ IsLoaded
    /\ IsSome(app.state.current_project)
    /\ IsSome(app.state.project_form_state)
    /\ Unwrap(app.state.current_project).name = ""
    /\ NameField(app.state) =
          [is_valid |-> FALSE, validation_message |-> "Name is required"]

(***************************************************************************)
(* C10: in a Loaded state reached after a successful load,                 *)
(* ProjectListSelectAllProjects(true) makes the selection the set of all   *)
(* store ids, (false) makes it empty, and (true) then (false) leaves it    *)
(* empty.                                                                  *)
(***************************************************************************)
C10_SelectAllSelectsEveryProject ==
    (IsLoaded /\ IsSome(app.state.projects_data)) =>
        LET on == update(app, MsgProjectListSelectAllProjects(TRUE), 1)
            off == update(app, MsgProjectListSelectAllProjects(FALSE), 1)
            onoff == update(on, MsgProjectListSelectAllProjects(FALSE), 1)
        IN  /\ SelectionSet(on.state) = ProjectIds(get_projects(app.state))
            /\ SelectionSet(off.state) = {}
            /\ SelectionSet(onoff.state) = {}

(***************************************************************************)
(* C11: in a Loaded state reached after a successful load,                 *)
(* ProjectListProjectSelected{id, selected: true} makes id a member of the *)
(* selection, {id, selected: false} makes it a non-member, the membership  *)
(* of every other id is unchanged, and deselecting an id that is not       *)
(* selected leaves the selection unchanged.                                *)
(***************************************************************************)
C11_ToggleProjectSelected ==
    (IsLoaded /\ IsSome(app.state.projects_data)) =>
        \A id \in Uuids :
            LET on == update(app, MsgProjectListProjectSelected(TRUE, id), 1)
                off == update(app, MsgProjectListProjectSelected(FALSE, id), 1)
            IN  /\ is_project_selected(on.state, id)
                /\ ~is_project_selected(off.state, id)
                /\ \A other \in Uuids \ {id} :
                      /\ is_project_selected(on.state, other)
                            = is_project_selected(app.state, other)
                      /\ is_project_selected(off.state, other)
                            = is_project_selected(app.state, other)
                /\ ~is_project_selected(app.state, id) =>
                      SelectionSet(off.state) = SelectionSet(app.state)

(***************************************************************************)
(* C12: with N >= 1 projects in the store of a Loaded state reached after  *)
(* a successful load, once ProjectListProjectSelected{id, selected: true}  *)
(* has been processed for each of the N store ids the all-selected         *)
(* predicate of the list view is true, and after one of them is then       *)
(* deselected it is false.                                                 *)
(***************************************************************************)
\* self after ProjectListProjectSelected{selected: true} for each id of ids.
RECURSIVE SelectEach(_, _)
SelectEach(self, ids) ==
    IF ids = <<>> THEN self
    ELSE SelectEach(
            update(self, MsgProjectListProjectSelected(TRUE, Head(ids)), 1),
            Tail(ids))

C12_AllSelectedPredicate ==
    (/\ IsLoaded
     /\ IsSome(app.state.projects_data)
     /\ Len(get_projects(app.state)) >= 1) =>
        LET ids == MapIds(get_projects(app.state))
            all == SelectEach(app, ids)
        IN  /\ all_projects_selected(all.state)
            /\ \A i \in 1..Len(ids) :
                  ~all_projects_selected(
                      update(all, MsgProjectListProjectSelected(FALSE, ids[i]),
                             1).state)

(***************************************************************************)
(* C13: in every reachable Loaded state the selection holds each id at     *)
(* most once and only ids of projects in the store, and this still holds   *)
(* after ProjectListProjectSelected{selected: true} is processed twice for *)
(* the same id, whether or not that id is in the store.                    *)
(***************************************************************************)
\* The selection holds no id twice and no id outside the store.
SelectionIsSetOfStoreIds(self) ==
    /\ \A i, j \in 1..Len(SelectedProjects(self.state)) :
          SelectedProjects(self.state)[i] = SelectedProjects(self.state)[j]
              => i = j
    /\ SelectionSet(self.state) \subseteq StoreIds(self)

\* self after ProjectListProjectSelected{selected: true} twice for id.
SelectTwice(self, id) == SelectEach(self, <<id, id>>)

C13_SelectionIsSetOfStoreIds ==
    IsLoaded =>
        /\ SelectionIsSetOfStoreIds(app)
        /\ \A id \in Uuids : SelectionIsSetOfStoreIds(SelectTwice(app, id))

\* A Loaded state with two stored projects (one was added by a save) and an
\* id outside the store, in which the repeated select of a stored id and of
\* the absent id both leave the selection a set of store ids.
C13_Witness ==
    /\ IsLoaded
    /\ Len(get_projects(app.state)) = 2
    /\ \E stored \in StoreIds(app), absent \in Uuids \ StoreIds(app) :
          /\ SelectionIsSetOfStoreIds(SelectTwice(app, stored))
          /\ SelectionIsSetOfStoreIds(SelectTwice(app, absent))

(***************************************************************************)
(* C14: in every reachable Loaded state no two projects of the store share *)
(* an id; CurrentProjectSave in context NewProject appends a project whose *)
(* id is the one create_project generated, which differs from every id     *)
(* already in the store and from the id of current_project; and no message *)
(* changes the id of a project already in the store.                       *)
(***************************************************************************)
\* The Uuids the generator may return while message is processed in self.
MessageUuids(self, message) ==
    CASE message.type = "NewProject" -> NewProjectUuids(self)
      [] message.type = "CurrentProjectSave" -> SaveUuids(self)
      [] OTHER -> {1}

\* Every message the running application may receive in the current state.
AllMessages ==
    NonLoadMessages
    \cup {MsgAppLoaded(load(disk)), MsgAppLoaded(Err("load"))}

ProjectIdsUniqueAndKept ==
    IsLoaded =>
        LET projects == get_projects(app.state)
            ids == MapIds(projects)
        IN  /\ \A i, j \in 1..Len(ids) : ids[i] = ids[j] => i = j
            /\ \A message \in AllMessages :
               \A uuid \in MessageUuids(app, message) :
                  LET post == update(app, message, uuid) IN
                  post.tag = "Loaded" =>
                      /\ Len(get_projects(post.state)) >= Len(ids)
                      /\ SubSeq(MapIds(get_projects(post.state)), 1, Len(ids))
                            = ids
            /\ SaveCreates(app) =>
                  \A uuid \in CreateUuids(app) :
                      LET post == update(app, MsgCurrentProjectSave, uuid) IN
                      /\ MapIds(get_projects(post.state)) = Append(ids, uuid)
                      /\ uuid \notin ProjectIds(projects)
                      /\ uuid # Unwrap(app.state.current_project).id

C14_ProjectIdsUnique == []ProjectIdsUniqueAndKept

\* A NewProject session over a non-empty store with a Uuid left for
\* create_project: the save appends a project under a fresh id.
C14_Witness ==
    /\ SaveCreates(app)
    /\ Len(get_projects(app.state)) = 1
    /\ CreateUuids(app) # {}
    /\ Unwrap(app.state.current_project).id \notin StoreIds(app)
    /\ Len(get_projects(
              update(app, MsgCurrentProjectSave,
                     Least(CreateUuids(app))).state)) = 2

(***************************************************************************)
(* C15: in any Loaded state, NewProject makes current_project a project    *)
(* with empty name and empty description, makes every form field valid     *)
(* with an empty message (whatever the previous session left), and sets    *)
(* the context to NewProject; projects_data and the selection are          *)
(* unchanged.                                                              *)
(***************************************************************************)
C15_NewProjectOpensEmptyForm ==
    IsLoaded =>
        \A uuid \in NewProjectUuids(app) :
            LET post == update(app, MsgNewProject, uuid) IN
            /\ post.tag = "Loaded"
            /\ IsSome(post.state.current_project)
            /\ Unwrap(post.state.current_project).name = ""
            /\ Unwrap(post.state.current_project).description = ""
            /\ IsSome(post.state.project_form_state)
            /\ \A field \in {"name_field", "description_field"} :
                  Unwrap(post.state.project_form_state)[field]
                      = [is_valid |-> TRUE, validation_message |-> ""]
            /\ post.state.context = Some("NewProject")
            /\ post.state.projects_data = app.state.projects_data
            /\ post.state.project_list_state = app.state.project_list_state
            /\ update_disk(app, MsgNewProject, disk, TRUE) = disk

\* An edit session on a stored project whose name was emptied: the name
\* field is invalid when NewProject arrives.
C15_Witness ==
    /\ IsLoaded
    /\ app.state.context = Some("EditProject")
    /\ IsSome(app.state.current_project)
    /\ IsSome(app.state.project_form_state)
    /\ ~NameField(app.state).is_valid
    /\ Len(get_projects(app.state)) >= 1
    /\ NewProjectUuids(app) # {}
    /\ NameField(update(app, MsgNewProject,
                        Least(NewProjectUuids(app))).state).is_valid

(***************************************************************************)
(* C16: in every reachable Loaded state current_project is present exactly *)
(* when the context is NewProject or EditProject; in particular it is      *)
(* absent whenever the context is ProjectList.                             *)
(***************************************************************************)
C16_BufferPresentIffEditContext ==
    IsLoaded =>
        (IsSome(app.state.current_project)
            <=> app.state.context \in EditContexts)

(***************************************************************************)
(* C17: whenever a message takes the context from NewProject or            *)
(* EditProject back to ProjectList the selection is empty afterwards, and  *)
(* whenever a message makes the context NewProject or EditProject (from    *)
(* another context, or by opening a form again) every form field is valid  *)
(* afterwards.                                                             *)
(***************************************************************************)
\* Processing message took the context of self back to ProjectList.
ReturnsToProjectList(self, post) ==
    /\ self.state.context \in EditContexts
    /\ post.tag = "Loaded"
    /\ post.state.context = Some("ProjectList")

\* Processing message made the context NewProject or EditProject: the
\* context changed to it, or the arm of NewProject / EditProject set it.
EntersEditContext(self, message, post) ==
    /\ post.tag = "Loaded"
    /\ post.state.context \in EditContexts
    /\ \/ post.state.context # self.state.context
       \/ post.state.context = Some(message.type)

AllFieldsValid(state) ==
    /\ IsSome(state.project_form_state)
    /\ Unwrap(state.project_form_state).name_field.is_valid
    /\ Unwrap(state.project_form_state).description_field.is_valid

ContextChangeResets ==
    IsLoaded =>
        \A message \in AllMessages :
        \A uuid \in MessageUuids(app, message) :
            LET post == update(app, message, uuid) IN
            /\ ReturnsToProjectList(app, post) =>
                  SelectionSet(post.state) = {}
            /\ EntersEditContext(app, message, post) =>
                  AllFieldsValid(post.state)

C17_ContextChangeResets == []ContextChangeResets

\* An edit session on a stored project whose name field is invalid:
\* EditProjectCancel returns to ProjectList, and opening either form again
\* enters an edit context.
C17_Witness ==
    /\ IsLoaded
    /\ app.state.context = Some("EditProject")
    /\ IsSome(app.state.current_project)
    /\ IsSome(app.state.project_form_state)
    /\ ~NameField(app.state).is_valid
    /\ ReturnsToProjectList(app, update(app, MsgEditProjectCancel, 1))
    /\ \E id \in StoreIds(app) :
          EntersEditContext(app, MsgEditProject(id),
                            update(app, MsgEditProject(id), 1))
    /\ EntersEditContext(app, MsgNewProject,
                         update(app, MsgNewProject,
                                Least(NewProjectUuids(app))))

(***************************************************************************)
(* C18 (as stated): the write started by AppSync is dispatched outside the *)
(* processing of the message and completes later, so the persisted         *)
(* representation is still the old one when the processing of AppSync      *)
(* ends.                                                                   *)
(***************************************************************************)
C18_SyncWriteIsDispatchedOutsideUpdate ==
    (IsLoaded /\ IsSome(app.state.projects_data)) =>
        \A write_ok \in BOOLEAN :
            update_disk(app, MsgAppSync, disk, write_ok) = disk

(***************************************************************************)
(* C18 (amended): the write started by AppSync is performed inside the     *)
(* processing of that message and has succeeded or failed when it ends: a  *)
(* successful write has replaced the persisted representation by the store *)
(* of that moment, a failed one has left it as it was, and the processing  *)
(* of no other message changes the persisted representation, so no write   *)
(* is outstanding while another message is processed.                      *)
(***************************************************************************)
C18_SyncWriteCompletesInsideUpdate ==
    /\ \A message \in AllMessages \ {MsgAppSync} :
          update_disk(app, message, disk, TRUE) = disk
    /\ (IsLoaded /\ IsSome(app.state.projects_data)) =>
          /\ update_disk(app, MsgAppSync, disk, TRUE) = app.state.projects_data
          /\ update_disk(app, MsgAppSync, disk, FALSE) = disk
          /\ update(app, MsgAppSync, 1) = app

\* Two projects were written by an AppSync and a save has changed the store
\* since: the persisted representation is that of the last write, and the
\* next successful AppSync replaces it.
C18_Witness ==
    /\ IsLoaded
    /\ IsSome(disk)
    /\ Len(Unwrap(disk)) = 2
    /\ Len(get_projects(app.state)) = 2
    /\ app.state.projects_data # disk
    /\ update_disk(app, MsgAppSync, disk, TRUE) # disk

(***************************************************************************)
(* C19: when the ticks of the subscription are delivered fairly and the    *)
(* writes succeed, a store that differs from the persisted representation  *)
(* (as it does after CurrentProjectSave has committed a change) leads to a *)
(* state in which the persisted representation equals the store; a         *)
(* successful AppSync makes the persisted representation the entire store  *)
(* of that moment; and AppSync while Loading changes neither the           *)
(* application nor the persisted representation.                           *)
(***************************************************************************)
StoreNotPersisted ==
    /\ IsLoaded
    /\ IsSome(app.state.projects_data)
    /\ app.state.projects_data # disk

StorePersisted ==
    /\ IsLoaded
    /\ IsSome(app.state.projects_data)
    /\ app.state.projects_data = disk

SyncOverwritesInFull ==
    (IsLoaded /\ IsSome(app.state.projects_data)) =>
        update_disk(app, MsgAppSync, disk, TRUE) = app.state.projects_data

SyncWhileLoadingHasNoEffect ==
    app.tag = "Loading" =>
        /\ update(app, MsgAppSync, 1) = app
        /\ \A write_ok \in BOOLEAN :
              update_disk(app, MsgAppSync, disk, write_ok) = disk

C19_AutosaveLiveness ==
    /\ StoreNotPersisted ~> StorePersisted
    /\ [](SyncOverwritesInFull /\ SyncWhileLoadingHasNoEffect)

\* A store of two projects, the second one committed by CurrentProjectSave
\* and the first one edited since the load, has been persisted in full.
C19_Witness ==
    /\ StorePersisted
    /\ Len(get_projects(app.state)) = 2
    /\ get_projects(app.state)[1].name = ""

(***************************************************************************)
(* C20: a Loaded application is never Loading again, whatever message it   *)
(* processes, and AppLoaded (with the result of a successful load of any   *)
(* persisted data, or with an error) processed while Loaded leaves the     *)
(* whole state -- projects_data, context, current_project, the selection,  *)
(* the form fields -- and the persisted representation unchanged.          *)
(***************************************************************************)
\* The results the load task of App::new may deliver.
LoadResults ==
    {load(d) : d \in InitialDisks \cup {disk}} \cup {Err("load")}

AppLoadedIsIgnored ==
    IsLoaded =>
        \A result \in LoadResults :
            /\ update(app, MsgAppLoaded(result), 1) = app
            /\ update_disk(app, MsgAppLoaded(result), disk, TRUE) = disk

C20_LoadedIgnoresAppLoaded ==
    /\ [][IsLoaded => app'.tag # "Loading"]_vars
    /\ []AppLoadedIsIgnored

\* A NewProject session with an invalid name field over a store of two
\* projects that differs from every store a load could deliver.
C20_Witness ==
    /\ IsLoaded
    /\ app.state.context = Some("NewProject")
    /\ IsSome(app.state.current_project)
    /\ IsSome(app.state.project_form_state)
    /\ ~NameField(app.state).is_valid
    /\ Len(get_projects(app.state)) = 2
    /\ \A result \in LoadResults :
          result.ok => result.state.projects_data # app.state.projects_data

====
